---- MODULE Spec2Model ----
(***************************************************************************)
(* Model of icon-generator.py (LinkedInify icon generator).                *)
(*                                                                         *)
(* One invocation of the script is: the module-level imports (line 8),     *)
(* the guarded call of generate_all_icons (lines 77-79), which runs        *)
(* create_icon + save + print for the eight ICON_SIZES and the favicon,    *)
(* and the two except clauses (lines 80-88).  The filesystem, the          *)
(* availability of Pillow and of the two named fonts, and the metrics the  *)
(* font engine reports are the environment; they are fixed for a working   *)
(* directory and its successive invocations.  Writes to standard output    *)
(* are taken to succeed.                                                   *)
(***************************************************************************)
EXTENDS Integers, Sequences, FiniteSets, TLC

\* ---------------------------------------------------------------- bounds
MaxRuns == 2        \* successive invocations in one working directory
MaxBearing == 1     \* largest left/top offset textbbox reports at (0,0)

\* ------------------------------------------------------ program constants
\* the list out of ascending order
ICON_SIZES_m == <<96, 72, 128, 144, 152, 192, 384, 512>>
ICON_SIZES == <<72, 96, 128, 144, 152, 192, 384, 512>>
FAVICON_SIZE == 32
FONT1 == "arial.ttf"
FONT2 == "/System/Library/Fonts/Arial.ttf"
DEFAULT_FONT == "default"

Max(a, b) == IF a >= b THEN a ELSE b

\* f'icons/icon-{size}x{size}.png'
filename(size) ==
  "icons/icon-" \o ToString(size) \o "x" \o ToString(size) \o ".png"

NumTargets == Len(ICON_SIZES) + 1

\* The i-th render+save of generate_all_icons: the loop, then the favicon.
TargetSize(i) == IF i <= Len(ICON_SIZES) THEN ICON_SIZES[i] ELSE FAVICON_SIZE
TargetPath(i) == IF i <= Len(ICON_SIZES) THEN filename(ICON_SIZES[i]) ELSE "favicon.ico"
TargetFormat(i) == IF i <= Len(ICON_SIZES) THEN "PNG" ELSE "ICO"
InIconsDir(i) == i <= Len(ICON_SIZES)

AllPaths == {TargetPath(i) : i \in 1..NumTargets}

\* int(size * 0.4)
font_size(size) == (size * 4) \div 10

\* the clamp to 1 forgotten
border_width_m(size) == size \div 64

\* max(1, size // 64)
border_width(size) == Max(1, size \div 64)

\* draw.textbbox((0, 0), text, font=font): <<left, top, right, bottom>>.
\* The named fonts scale with the requested size; load_default() is given no
\* size, so its glyphs keep their built-in extent.
textbbox(font, fsz, l, t) ==
  LET ext == IF font = DEFAULT_FONT THEN 10 ELSE fsz
  IN  <<l, t, l + ext, t + ext>>

\* Python's bbox[0..3] are b[1..4] here.
\* x = (size - text_width) // 2, text_width = bbox[2] - bbox[0]
text_x(size, b) == (size - (b[3] - b[1])) \div 2
\* y = (size - text_height) // 2 - bbox[1], text_height = bbox[3] - bbox[1]
text_y(size, b) == (size - (b[4] - b[2])) \div 2 - b[2]

\* An image or a file's content.
Blank ==
  [kind |-> "blank", fmt |-> "", width |-> 0, height |-> 0, font |-> "none",
   x |-> 0, y |-> 0, glyph |-> <<0, 0, 0, 0>>, border |-> 0, ops |-> <<>>]
Stale == [Blank EXCEPT !.kind = "stale"]
Partial == [Blank EXCEPT !.kind = "partial"]

\* a non-square canvas
NewImg_m(size) ==
  [Blank EXCEPT !.kind = "image", !.width = size, !.height = size \div 2,
                !.ops = <<"fill">>]

\* Image.new('RGB', (size, size), '#0077b5')
NewImg(size) ==
  [Blank EXCEPT !.kind = "image", !.width = size, !.height = size,
                !.ops = <<"fill">>]

\* icon.save(filename, fmt): the bytes on disk decode to the image saved.
Encode(image, fmt) == [image EXCEPT !.kind = "file", !.fmt = fmt]

VARIABLES
  pc,          \* position of the invocation
  runs,        \* invocations started so far
  pil,         \* Pillow is importable in this invocation
  avail1,      \* ImageFont.truetype(FONT1, ..) succeeds
  avail2,      \* ImageFont.truetype(FONT2, ..) succeeds
  bboxLeft,    \* bbox[0] the font engine reports at origin (0,0)
  bboxTop,     \* bbox[1] the font engine reports at origin (0,0)
  dir,         \* what 'icons' is: "absent", "dir" or "file"
  fs,          \* the files that exist: path -> content
  idx,         \* index of the target being rendered/saved
  img,         \* the image under construction (img, draw)
  bbox,        \* the measured bounding box
  tried,       \* font lookups made for the current image
  log,         \* operations and stdout lines of this invocation, in order
  saved,       \* <<path, content>> of the saves that completed, in order
  exc,         \* the exception propagating to the top level
  failedAt,    \* position at which it was raised
  fsStart,     \* fs when this invocation started
  dirStart,    \* dir when this invocation started
  prevOutcome  \* how the previous invocation ended

vars == <<pc, runs, pil, avail1, avail2, bboxLeft, bboxTop, dir, fs, idx, img,
          bbox, tried, log, saved, exc, failedAt, fsStart, dirStart,
          prevOutcome>>

env == <<pil, avail1, avail2, bboxLeft, bboxTop>>
hist == <<fsStart, dirStart, prevOutcome, runs>>

Ev(e, a) == [ev |-> e, arg |-> a]

EmptyFS == [p \in {} |-> Blank]
StaleFS == [p \in AllPaths |-> Stale]

Init ==
  /\ pc = "NotStarted"
  /\ runs = 0
  /\ pil \in BOOLEAN /\ avail1 \in BOOLEAN /\ avail2 \in BOOLEAN
  /\ bboxLeft \in 0..MaxBearing
  /\ bboxTop \in 0..MaxBearing
  /\ \/ dir = "absent" /\ fs = EmptyFS
     \/ dir = "dir" /\ fs = EmptyFS
     \/ dir = "dir" /\ fs = StaleFS
     \/ dir = "file" /\ fs = EmptyFS
  /\ idx = 0
  /\ img = Blank
  /\ bbox = <<0, 0, 0, 0>>
  /\ tried = <<>>
  /\ log = <<>>
  /\ saved = <<>>
  /\ exc = "none"
  /\ failedAt = "none"
  /\ fsStart = fs
  /\ dirStart = dir
  /\ prevOutcome = "none"

Ended == pc \in {"Done", "Failed", "Crashed"}

\* python icon-generator.py
Invoke ==
  /\ pc = "NotStarted" \/ Ended
  /\ runs < MaxRuns
  /\ runs' = runs + 1
  /\ pc' = "Import"
  /\ idx' = 0 /\ img' = Blank /\ bbox' = <<0, 0, 0, 0>> /\ tried' = <<>>
  /\ log' = <<>> /\ saved' = <<>> /\ exc' = "none" /\ failedAt' = "none"
  /\ fsStart' = fs /\ dirStart' = dir
  /\ prevOutcome' = pc
  /\ UNCHANGED <<env, dir, fs>>

Raise(kind) ==
  /\ exc' = kind
  /\ failedAt' = pc
  /\ pc' = "Except"

\* line 8 succeeds; line 77 enters the try block
ImportOk ==
  /\ pc = "Import" /\ pil
  /\ pc' = "EnsureDir"
  /\ UNCHANGED <<env, hist, dir, fs, idx, img, bbox, tried, log, saved, exc, failedAt>>

\* line 8 raises ImportError at module level, outside the try of line 78:
\* nothing catches it and the interpreter exits with a traceback.
ImportFail ==
  /\ pc = "Import" /\ ~pil
  /\ pc' = "Crashed"
  /\ exc' = "ImportError"
  /\ failedAt' = "Import"
  /\ UNCHANGED <<env, hist, dir, fs, idx, img, bbox, tried, log, saved>>

\* lines 55-56
EnsureDirOk ==
  /\ pc = "EnsureDir"
  /\ dir' = IF dir = "absent" THEN "dir" ELSE dir
  /\ log' = Append(log, Ev("ensure_dir", 0))
  /\ pc' = "Banner"
  /\ UNCHANGED <<env, hist, fs, idx, img, bbox, tried, saved, exc, failedAt>>

\* os.makedirs raises (read-only working directory, ...)
EnsureDirFail ==
  /\ pc = "EnsureDir"
  /\ dir = "absent"
  /\ Raise("OSError")
  /\ UNCHANGED <<env, hist, dir, fs, idx, img, bbox, tried, log, saved>>

\* line 58
Banner ==
  /\ pc = "Banner"
  /\ log' = Append(log, Ev("start_banner", 0))
  /\ idx' = 1
  /\ pc' = "New"
  /\ UNCHANGED <<env, hist, dir, fs, img, bbox, tried, saved, exc, failedAt>>

\* create_icon, lines 17-22
NewImage ==
  /\ pc = "New"
  /\ img' = NewImg(TargetSize(idx))
  /\ tried' = <<>>
  /\ bbox' = <<0, 0, 0, 0>>
  /\ log' = Append(log, Ev("render_begin", TargetSize(idx)))
  /\ pc' = "Font1"
  /\ UNCHANGED <<env, hist, dir, fs, idx, saved, exc, failedAt>>

\* line 26
Font1Ok ==
  /\ pc = "Font1" /\ avail1
  /\ tried' = Append(tried, FONT1)
  /\ img' = [img EXCEPT !.font = FONT1]
  /\ pc' = "Measure"
  /\ UNCHANGED <<env, hist, dir, fs, idx, bbox, log, saved, exc, failedAt>>

\* line 26 raises, line 27 catches
Font1Fail ==
  /\ pc = "Font1" /\ ~avail1
  /\ tried' = Append(tried, FONT1)
  /\ pc' = "Font2"
  /\ UNCHANGED <<env, hist, dir, fs, idx, img, bbox, log, saved, exc, failedAt>>

\* line 29
Font2Ok ==
  /\ pc = "Font2" /\ avail2
  /\ tried' = Append(tried, FONT2)
  /\ img' = [img EXCEPT !.font = FONT2]
  /\ pc' = "Measure"
  /\ UNCHANGED <<env, hist, dir, fs, idx, bbox, log, saved, exc, failedAt>>

\* the second lookup's failure left unguarded
Font2Fail_m ==
  /\ pc = "Font2" /\ ~avail2
  /\ tried' = Append(tried, FONT2)
  /\ Raise("OSError")
  /\ UNCHANGED <<env, hist, dir, fs, idx, img, bbox, log, saved>>

\* line 29 raises, line 30 catches
Font2Fail ==
  /\ pc = "Font2" /\ ~avail2
  /\ tried' = Append(tried, FONT2)
  /\ pc' = "FontDefault"
  /\ UNCHANGED <<env, hist, dir, fs, idx, img, bbox, log, saved, exc, failedAt>>

\* line 32
FontDefault ==
  /\ pc = "FontDefault"
  /\ tried' = Append(tried, DEFAULT_FONT)
  /\ img' = [img EXCEPT !.font = DEFAULT_FONT]
  /\ pc' = "Measure"
  /\ UNCHANGED <<env, hist, dir, fs, idx, bbox, log, saved, exc, failedAt>>

\* lines 35-41
Measure ==
  /\ pc = "Measure"
  /\ LET b == textbbox(img.font, font_size(img.width), bboxLeft, bboxTop)
     IN  /\ bbox' = b
         /\ img' = [img EXCEPT !.x = text_x(img.width, b),
                               !.y = text_y(img.width, b)]
  /\ pc' = "Text"
  /\ UNCHANGED <<env, hist, dir, fs, idx, tried, log, saved, exc, failedAt>>

\* line 44: the glyph covers its bounding box translated by (x, y)
DrawText ==
  /\ pc = "Text"
  /\ img' = [img EXCEPT
       !.glyph = <<img.x + bbox[1], img.y + bbox[2],
                   img.x + bbox[3], img.y + bbox[4]>>,
       !.ops = Append(img.ops, "text")]
  /\ pc' = "Border"
  /\ UNCHANGED <<env, hist, dir, fs, idx, bbox, tried, log, saved, exc, failedAt>>

\* lines 47-50
DrawBorder ==
  /\ pc = "Border"
  /\ img' = [img EXCEPT !.border = border_width(img.width),
                        !.ops = Append(img.ops, "rectangle")]
  /\ log' = Append(log, Ev("rendered", img.width))
  /\ pc' = "Save"
  /\ UNCHANGED <<env, hist, dir, fs, idx, bbox, tried, saved, exc, failedAt>>

\* an imaging-library call of create_icon raises (lines 17, 35, 44, 48)
RenderFail ==
  /\ pc \in {"New", "Measure", "Text", "Border"}
  /\ Raise("Error")
  /\ UNCHANGED <<env, hist, dir, fs, idx, img, bbox, tried, log, saved>>

Writable(i) == InIconsDir(i) => dir = "dir"

\* open(path, "w+b") followed by a write: creates the file or replaces it
Put(f, p, c) == [q \in DOMAIN f \cup {p} |-> IF q = p THEN c ELSE f[q]]

\* an existing target is kept and a numbered copy written next to it
SaveOk_m ==
  /\ pc = "Save"
  /\ Writable(idx)
  /\ LET c == Encode(img, TargetFormat(idx))
         t == IF TargetPath(idx) \in DOMAIN fs
                THEN TargetPath(idx) \o ".1" ELSE TargetPath(idx)
     IN  /\ fs' = Put(fs, t, c)
         /\ saved' = Append(saved, <<TargetPath(idx), c>>)
  /\ log' = Append(log, Ev("save", TargetSize(idx)))
  /\ pc' = "Confirm"
  /\ UNCHANGED <<env, hist, dir, idx, img, bbox, tried, exc, failedAt>>

\* lines 63 / 68: the file is created or overwritten
SaveOk ==
  /\ pc = "Save"
  /\ Writable(idx)
  /\ LET c == Encode(img, TargetFormat(idx))
     IN  /\ fs' = Put(fs, TargetPath(idx), c)
         /\ saved' = Append(saved, <<TargetPath(idx), c>>)
  /\ log' = Append(log, Ev("save", TargetSize(idx)))
  /\ pc' = "Confirm"
  /\ UNCHANGED <<env, hist, dir, idx, img, bbox, tried, exc, failedAt>>

\* lines 63 / 68 raise: the target is untouched (open failed) or is left
\* truncated (the encoder failed after the file was opened for writing)
SaveFail ==
  /\ pc = "Save"
  /\ \/ UNCHANGED fs
     \/ /\ Writable(idx)
        /\ fs' = Put(fs, TargetPath(idx), Partial)
  /\ Raise("OSError")
  /\ UNCHANGED <<env, hist, dir, idx, img, bbox, tried, log, saved>>

\* lines 64 / 69, and the loop's next iteration
Confirm ==
  /\ pc = "Confirm"
  /\ log' = Append(log, Ev("confirm", TargetSize(idx)))
  /\ IF idx < NumTargets
       THEN idx' = idx + 1 /\ pc' = "New"
       ELSE idx' = idx /\ pc' = "Summary"
  /\ UNCHANGED <<env, hist, dir, fs, img, bbox, tried, saved, exc, failedAt>>

\* lines 71-75
Summary ==
  /\ pc = "Summary"
  /\ log' = log \o <<Ev("done_banner", 0), Ev("listing", NumTargets)>>
  /\ pc' = "Done"
  /\ UNCHANGED <<env, hist, dir, fs, idx, img, bbox, tried, saved, exc, failedAt>>

ErrorReport ==
  <<Ev("error", 0), Ev("alternative", 1), Ev("alternative", 2),
    Ev("alternative", 3)>>

\* the error is reported and the batch resumed with the next target
Handler_retry ==
  /\ pc = "Except"
  /\ log' = log \o ErrorReport
  /\ IF 0 < idx /\ idx < NumTargets
       THEN idx' = idx + 1 /\ pc' = "New"
       ELSE idx' = idx /\ pc' = "Failed"
  /\ UNCHANGED <<env, hist, dir, fs, img, bbox, tried, saved, exc, failedAt>>

\* the error is reported and the files written so far are removed
Handler_rollback ==
  /\ pc = "Except"
  /\ log' = log \o ErrorReport
  /\ fs' = fsStart
  /\ pc' = "Failed"
  /\ UNCHANGED <<env, hist, dir, idx, img, bbox, tried, saved, exc, failedAt>>

\* lines 80-88.  Nothing raised inside the try block is an ImportError (the
\* imports ran before it), so the first branch is never taken.
Handler ==
  /\ pc = "Except"
  /\ log' = IF exc = "ImportError"
              THEN log \o <<Ev("install_hint", 0)>>
              ELSE log \o ErrorReport
  /\ pc' = "Failed"
  /\ UNCHANGED <<env, hist, dir, fs, idx, img, bbox, tried, saved, exc, failedAt>>

RunStep ==
  \/ ImportOk \/ ImportFail
  \/ EnsureDirOk \/ EnsureDirFail
  \/ Banner
  \/ NewImage
  \/ Font1Ok \/ Font1Fail \/ Font2Ok \/ Font2Fail \/ FontDefault
  \/ Measure \/ DrawText \/ DrawBorder \/ RenderFail
  \/ SaveOk \/ SaveFail
  \/ Confirm
  \/ Summary
  \/ Handler

Next == Invoke \/ RunStep

Spec == Init /\ [][Next]_vars

\* ------------------------------------------------------------ properties

Count(l, e) == Cardinality({i \in 1..Len(l) : l[i].ev = e})
IsPrefix(a, b) == Len(a) <= Len(b) /\ \A i \in 1..Len(a) : a[i] = b[i]
Abs(n) == IF n < 0 THEN -n ELSE n

\* The outputs, in the order the specification lists them.
CanonSizes == <<72, 96, 128, 144, 152, 192, 384, 512, 32>>
CanonPaths ==
  <<"icons/icon-72x72.png", "icons/icon-96x96.png", "icons/icon-128x128.png",
    "icons/icon-144x144.png", "icons/icon-152x152.png",
    "icons/icon-192x192.png", "icons/icon-384x384.png",
    "icons/icon-512x512.png", "favicon.ico">>
CanonPathSet == {CanonPaths[i] : i \in 1..Len(CanonPaths)}

\* C1: when a run has reached Done, every icons/icon-{s}x{s}.png exists and
\* holds an s x s image, and favicon.ico exists and holds a 32 x 32 image.
C1_DoneFilesHaveSize ==
  pc = "Done" =>
    \A i \in 1..Len(CanonPaths) :
      /\ CanonPaths[i] \in DOMAIN fs
      /\ fs[CanonPaths[i]].kind = "file"
      /\ fs[CanonPaths[i]].width = CanonSizes[i]
      /\ fs[CanonPaths[i]].height = CanonSizes[i]

\* the run replaced nine stale files of another size
C1_Witness == pc = "Done" /\ fsStart = StaleFS /\ fs["favicon.ico"].width = 32

\* C2: when Pillow is absent the invocation ends in the handled
\* MissingImagingLibrary outcome: the install instruction is printed by the
\* top-level handler, and no file or directory is written.
C2_MissingLibraryReported ==
  (~pil /\ Ended) =>
    /\ pc = "Failed"
    /\ log = <<Ev("install_hint", 0)>>
    /\ fs = fsStart /\ dir = dirStart

\* C3: once directory creation, rendering or saving has failed, the only step
\* left is the top-level handler: it appends the error message and the three
\* alternatives, touches no file, attempts no render or save, and the run
\* ends in Failed with one error report, no completion banner and no
\* confirmation line beyond those of the completed saves.
C3_FailFastReportOnce ==
  [][ /\ (pc \in {"EnsureDir", "New", "Measure", "Text", "Border", "Save"}
            /\ exc' # "none")
           => (pc' = "Except" /\ log' = log /\ saved' = saved)
      /\ pc = "Except"
           => /\ pc' = "Failed"
              /\ log' = log \o ErrorReport
              /\ fs' = fs /\ dir' = dir /\ saved' = saved
              /\ img' = img /\ idx' = idx
      /\ pc = "Failed" => pc' = "Import"
      /\ pc' = "Failed"
           => /\ Count(log', "error") = 1
              /\ Count(log', "alternative") = 3
              /\ Count(log', "done_banner") = 0
              /\ Count(log', "confirm") = Len(saved')
              /\ Count(log', "save") = Len(saved')
    ]_vars

\* a save failed in mid-batch and was reported
C3_Witness ==
  /\ pc = "Failed" /\ failedAt = "Save" /\ Len(saved) = 3
  /\ Count(log, "error") = 1

\* C4: a run that reaches Done right after a run that reached Done, in the
\* same environment, leaves the filesystem as the first run left it: exactly
\* the nine output files, each with the same content.
C4_RerunIdempotent ==
  (pc = "Done" /\ prevOutcome = "Done") =>
    /\ fs = fsStart
    /\ dir = dirStart
    /\ DOMAIN fs = CanonPathSet
    /\ Cardinality(DOMAIN fs) = 9

\* the second run found icons/ and all nine files in place and reached Done
C4_Witness ==
  /\ pc = "Done" /\ prevOutcome = "Done" /\ runs >= 2
  /\ dirStart = "dir" /\ DOMAIN fsStart = CanonPathSet

\* C5: the font lookups are made in the order first named font, second named
\* font, default font, each only after the previous one failed; a font is
\* always obtained, no failure is ever raised by the font selection, and
\* create_icon returns an image.
C5_FontFallback ==
  /\ failedAt \notin {"Font1", "Font2", "FontDefault"}
  /\ IsPrefix(tried, <<"arial.ttf", "/System/Library/Fonts/Arial.ttf", "default">>)
  /\ pc \in {"Measure", "Text", "Border", "Save"} =>
       /\ tried # <<>>
       /\ img.font = tried[Len(tried)]
       /\ Len(tried) = 1 <=> avail1
       /\ Len(tried) = 2 <=> (~avail1 /\ avail2)
       /\ Len(tried) = 3 <=> (~avail1 /\ ~avail2)
  /\ pc = "Save" => (img.kind = "image" /\ img.font # "none")

\* both named lookups failed and the image was completed with the default font
C5_Witness ==
  /\ pc = "Save" /\ ~avail1 /\ ~avail2
  /\ img.font = "default" /\ Len(tried) = 3 /\ img.kind = "image"

Thickness(s) == IF s >= 64 THEN s \div 64 ELSE 1
BorderOk(c) ==
  /\ c.border = Thickness(c.width)
  /\ c.border >= 1
  /\ c.width = 512 => c.border = 8
  /\ c.width = 72 => c.border = 1
  /\ c.width = 32 => c.border = 1
  /\ c.ops # <<>> /\ c.ops[Len(c.ops)] = "rectangle"
  /\ Count([i \in 1..Len(c.ops) |-> [ev |-> c.ops[i]]], "rectangle") = 1

\* C6: every icon rendered in a run has border thickness max(1, s // 64)
\* (8 for 512, 1 for 72 and for 32), at least 1, and the border is the last
\* thing drawn.
C6_BorderThickness ==
  /\ pc \in {"Save", "Confirm", "Summary", "Done"} => BorderOk(img)
  /\ \A i \in 1..Len(saved) : BorderOk(saved[i][2])

\* all nine images were rendered and saved
C6_Witness ==
  /\ pc = "Done" /\ Len(saved) = 9
  /\ saved[8][2].border = 8 /\ saved[9][2].border = 1 /\ saved[1][2].border = 1

\* C7: once the glyph is drawn, its left and right margins differ by at most
\* 1 and its top and bottom margins differ by at most 1.
C7_GlyphCentered ==
  pc \in {"Border", "Save"} =>
    /\ Abs(img.glyph[1] - (img.width - img.glyph[3])) <= 1
    /\ Abs(img.glyph[2] - (img.height - img.glyph[4])) <= 1

PerIcon(s) ==
  <<Ev("render_begin", s), Ev("rendered", s), Ev("save", s), Ev("confirm", s)>>
Canon ==
  <<Ev("ensure_dir", 0), Ev("start_banner", 0)>>
    \o PerIcon(72) \o PerIcon(96) \o PerIcon(128) \o PerIcon(144)
    \o PerIcon(152) \o PerIcon(192) \o PerIcon(384) \o PerIcon(512)
    \o PerIcon(32)
    \o <<Ev("done_banner", 0), Ev("listing", 9)>>

\* what generate_all_icons itself did and printed
OwnLog == IF pc = "Failed" THEN SubSeq(log, 1, Len(log) - Len(ErrorReport)) ELSE log

\* C8: the events of a run follow one fixed order: directory, start banner,
\* then per size in ascending order render, save, confirmation, then the
\* favicon, then the completion banner and the listing; a confirmation line
\* follows the save of its path, and a run that reaches Done printed nine.
C8_LinearOrder ==
  /\ IsPrefix(OwnLog, Canon)
  /\ \A i \in 1..Len(log) :
       log[i].ev = "confirm" =>
         (i > 1 /\ log[i-1] = Ev("save", log[i].arg) /\ Count(log, "save") >= Count(SubSeq(log, 1, i), "confirm"))
  /\ pc = "Done" => (log = Canon /\ Count(log, "confirm") = 9)

\* a complete run
C8_Witness == pc = "Done" /\ Len(log) = 40 /\ Count(log, "confirm") = 9

\* C9: an invocation that can take no further step is in Done or in Failed,
\* and it is in Done exactly when all nine saves succeeded.
C9_TerminalDoneOrFailed ==
  (runs >= 1 /\ ~ENABLED RunStep) =>
    /\ pc \in {"Done", "Failed"}
    /\ pc = "Done" <=> Len(saved) = 9

\* C10: the files written so far in a run are a prefix of the ordered output
\* list, each written once; they keep the content written, also after the
\* failure handler ran; no other path was touched.
C10_WrittenPrefix ==
  /\ Len(saved) <= Len(CanonPaths)
  /\ \A i \in 1..Len(saved) :
       /\ saved[i][1] = CanonPaths[i]
       /\ CanonPaths[i] \in DOMAIN fs
       /\ fs[CanonPaths[i]] = saved[i][2]
  /\ \A p \in DOMAIN fs :
       (p \notin DOMAIN fsStart \/ fs[p] # fsStart[p]) =>
         \E i \in 1..Len(CanonPaths) :
           /\ p = CanonPaths[i]
           /\ i <= Len(saved) + 1
           /\ i = Len(saved) + 1 => (failedAt = "Save" /\ fs[p] = Partial)
  /\ DOMAIN fsStart \subseteq DOMAIN fs

\* a run failed at the sixth save, leaving five files and a truncated sixth
C10_Witness ==
  /\ pc = "Failed" /\ Len(saved) = 5 /\ fs # fsStart
  /\ "icons/icon-192x192.png" \in DOMAIN fs
  /\ fs["icons/icon-192x192.png"] = Partial

====
